---- MODULE Spec2Model ----
(***************************************************************************)
(* Model of build.py, a static blog generator.  The script scans posts/,   *)
(* parses every qualifying file into a Post, sorts the posts by date       *)
(* (newest first), removes and recreates build/, writes the home page,     *)
(* writes one page per post and finally copies static/ into build/static.  *)
(*                                                                         *)
(* Text is a sequence of tokens (one-character strings, or longer strings  *)
(* for fixed fragments such as "&lt;").  Dates are days of January 2020.   *)
(* styles.css and the posts/ directory are taken to exist.                 *)
(***************************************************************************)
EXTENDS Integers, Sequences, FiniteSets, TLC

\* Largest number of entries of the posts/ directory.
MaxEntries == 3

----------------------------------------------------------------------------
(* Module constants of build.py *)

BLOG_TITLE == <<"the blog">>
DEFAULT_DESCRIPTION == <<"A cool and nice programming blog">>

----------------------------------------------------------------------------
(* Optional values: None, or a value *)

None == [isNone |-> TRUE]
Some(v) == [isNone |-> FALSE, val |-> v]

----------------------------------------------------------------------------
(* Dates *)

Pad2 == <<"01", "02", "03", "04", "05", "06", "07", "08", "09">>

Date(d) == [kind |-> "date", day |-> d]
DateTime(d) == [kind |-> "datetime", day |-> d]

\* Variant of IsIsoDate that does not validate the month.
IsIsoDate_AnyMonth(s) == Len(s) = 5 /\ \E d \in DOMAIN Pad2 : Pad2[d] = s[5]

\* dt.date.fromisoformat: "YYYY-MM-DD" to a date, ValueError otherwise.
IsIsoDate(s) ==
    /\ Len(s) = 5
    /\ s[1] = "2020" /\ s[2] = "-"
    /\ s[3] = "01" /\ s[4] = "-"
    /\ \E d \in DOMAIN Pad2 : Pad2[d] = s[5]

FromIsoFormat(s) == Date(CHOOSE d \in DOMAIN Pad2 : Pad2[d] = s[5])

\* date.strftime("%B %d, %Y")
Strftime(date) == <<"January", " ", Pad2[date.day], ",", " ", "2020">>

\* date.isoformat(); a datetime appends the time of day
Isoformat(date) ==
    IF date.kind = "datetime"
    THEN <<"2020", "-", "01", "-", Pad2[date.day], "T00:00:00">>
    ELSE <<"2020", "-", "01", "-", Pad2[date.day]>>

\* The day an ISO string stands for (reads back what Isoformat wrote).
IsoDay(s) == CHOOSE d \in DOMAIN Pad2 : Pad2[d] = s[5]

----------------------------------------------------------------------------
(* Text collaborators *)

Lower(c) == IF c = "A" THEN "a" ELSE IF c = "B" THEN "b" ELSE c

IsAlnum(c) == c \in {"a", "b", "c", "A", "B"}

RECURSIVE StripLeft(_)
StripLeft(s) ==
    IF s # <<>> /\ Head(s) = "-" THEN StripLeft(Tail(s)) ELSE s

RECURSIVE StripRight(_)
StripRight(s) ==
    IF s # <<>> /\ s[Len(s)] = "-"
    THEN StripRight(SubSeq(s, 1, Len(s) - 1))
    ELSE s

RECURSIVE Hyphenate(_)
\* lower-cases; every run of characters that are not alphanumeric becomes "-"
Hyphenate(s) ==
    IF s = <<>> THEN <<>>
    ELSE LET rest == Hyphenate(Tail(s))
         IN  IF IsAlnum(Head(s)) THEN <<Lower(Head(s))>> \o rest
             ELSE IF rest # <<>> /\ Head(rest) = "-" THEN rest
             ELSE <<"-">> \o rest

\* slugify(title): lower-case, hyphen-separated, no leading or trailing "-"
Slugify(title) == StripRight(StripLeft(Hyphenate(title)))

\* yattag's escaping of text nodes (line, text)
EscapeChar(c) ==
    IF c = "<" THEN "&lt;"
    ELSE IF c = ">" THEN "&gt;"
    ELSE IF c = "&" THEN "&amp;"
    ELSE c

Escape(s) == [k \in DOMAIN s |-> EscapeChar(s[k])]

\* yattag's escaping of attribute values (tag, stag, line keyword arguments)
AttrEscapeChar(c) ==
    IF c = "<" THEN "&lt;"
    ELSE IF c = "\"" THEN "&quot;"
    ELSE IF c = "&" THEN "&amp;"
    ELSE c

AttrEscape(s) == [k \in DOMAIN s |-> AttrEscapeChar(s[k])]

IsTag(c) == c \in {"<p>", "</p>"}

\* typogrify's widont: the space before the last word becomes "&nbsp;"
Widont(s) ==
    LET spaces == {k \in DOMAIN s : k > 1 /\ k < Len(s) /\ s[k] = " "}
    IN  IF spaces = {} THEN s
        ELSE LET last == CHOOSE k \in spaces : \A m \in spaces : m <= k
             IN  IF /\ s[last - 1] \notin {" ", "<", ">"}
                    /\ \A m \in (last + 1)..Len(s) : s[m] \notin {" ", "<", ">"}
                 THEN [k \in DOMAIN s |-> IF k = last THEN "&nbsp;" ELSE s[k]]
                 ELSE s

\* typogrify's smartypants and initial_quotes on a double quote next to a
\* word: a quote behind a word character closes; any other opens, and an
\* opening quote that starts the text or its paragraph is wrapped in a span.
SmartQuote(s, k) ==
    IF k > 1 /\ ~IsTag(s[k - 1]) /\ s[k - 1] \notin {" ", "&nbsp;", "-", "(", "[", "{"}
    THEN "&#8221;"
    ELSE IF k = 1 \/ s[k - 1] = "<p>"
    THEN "<span class=\"dquo\">&#8220;</span>"
    ELSE "&#8220;"

\* typogrify(text); markup characters pass through unchanged.
Typogrify(s) ==
    LET w == Widont(s)
    IN  [k \in DOMAIN w |-> IF w[k] = "\"" THEN SmartQuote(w, k) ELSE w[k]]


\* mistletoe.markdown(content): a paragraph whose text is entity-encoded
MarkdownChar(c) == IF c = "\"" THEN "&quot;" ELSE EscapeChar(c)

Markdown(content) ==
    <<"<p>">> \o [k \in DOMAIN content |-> MarkdownChar(content[k])] \o <<"</p>", "\n">>

\* .replace("&quot;", '"')
RestoreQuotes(s) == [k \in DOMAIN s |-> IF s[k] = "&quot;" THEN "\"" ELSE s[k]]

----------------------------------------------------------------------------
(* Post *)

MakePost(title, description, date, html) ==
    [title |-> title, description |-> description, date |-> date, html |-> html]

Slug(post) == Slugify(post.title)

\* Variant of Url that links to the title as it is.
Url_FromTitle(post) == <<"/posts/">> \o post.title

Url(post) == <<"/posts/">> \o Slug(post)

----------------------------------------------------------------------------
(* Renderer.  A page records every insertion of post content together    *)
(* with the insertion mode the code uses for it: "text" (line/text,      *)
(* escaped), "attr" (attribute value, escaped) or "asis" (raw markup).   *)

TextPiece(s) == [mode |-> "text", val |-> Escape(s)]
AttrPiece(s) == [mode |-> "attr", val |-> AttrEscape(s)]
AsisPiece(s) == [mode |-> "asis", val |-> s]

\* base_page: <title> and the description meta tag
BasePage(title, description) ==
    [pageTitle |-> TextPiece(IF title.isNone \/ title.val = <<>>
                             THEN BLOG_TITLE
                             ELSE title.val \o <<" | ">> \o BLOG_TITLE),
     metaDescription |-> AttrPiece(IF description.isNone \/ description.val = <<>>
                                   THEN DEFAULT_DESCRIPTION
                                   ELSE description.val)]

\* one <article> of the home page list
HomeArticle(post) ==
    [href |-> AttrPiece(Url(post)),
     title |-> AsisPiece(Typogrify(post.title)),
     time |-> TextPiece(Strftime(post.date)),
     datetime |-> AttrPiece(Isoformat(post.date)),
     description |-> IF post.description.isNone
                     THEN None
                     ELSE Some(AsisPiece(Typogrify(post.description.val)))]

home_page(ps) ==
    [kind |-> "home",
     base |-> BasePage(None, None),
     articles |-> [k \in DOMAIN ps |-> HomeArticle(ps[k])]]

post_page(post) ==
    [kind |-> "post",
     base |-> BasePage(Some(post.title), post.description),
     heading |-> AsisPiece(Typogrify(post.title)),
     time |-> TextPiece(Strftime(post.date)),
     datetime |-> AttrPiece(Isoformat(post.date)),
     body |-> AsisPiece(Typogrify(post.html))]

----------------------------------------------------------------------------
(* Source files *)

File(stem, meta, content) ==
    [stem |-> stem, isFile |-> TRUE, meta |-> meta, content |-> content]

\* The kinds of entries a posts/ directory is populated with.
Corpus ==
    << File(<<"p">>, [title |-> <<"a", " ", "b">>, date |-> Date(1)], <<"h", "i">>),
       File(<<"p">>, [title |-> <<"A", "-", "b">>, date |-> Date(2),
                      description |-> <<"x", "<", "y">>], <<"\"", "q", "\"">>),
       File(<<"p">>, [title |-> <<"c">>, date |-> Date(1)], <<"h", "i">>),
       File(<<"p">>, [title |-> <<"B", "!">>,
                      date |-> [kind |-> "str", text |-> <<"2020", "-", "01", "-", "03">>],
                      description |-> <<"d">>], <<"a", "&", "b">>),
       File(<<"p">>, [title |-> <<"<", "!", ">">>, date |-> Date(2)], <<"h", "i">>),
       File(<<"p">>, [title |-> <<"b">>, date |-> DateTime(1)], <<"h", "i">>),
       File(<<"p">>, [date |-> Date(1)], <<"h", "i">>),
       File(<<"p">>, [title |-> <<"c">>], <<"h", "i">>),
       File(<<"p">>, [title |-> <<"c">>,
                      date |-> [kind |-> "str", text |-> <<"2020", "-", "13", "-", "01">>]],
            <<"h", "i">>),
       File(<<".", "p">>, [title |-> <<"b">>, date |-> Date(2)], <<"h", "i">>),
       [stem |-> <<"d">>, isFile |-> FALSE, meta |-> <<>>, content |-> <<>>] >>

\* Non-decreasing index sequences: a directory is a multiset of corpus entries.
Ascending(n) ==
    {s \in [1..n -> DOMAIN Corpus] : \A k \in 1..(n - 1) : s[k] <= s[k + 1]}

Digit == <<"1", "2", "3", "4", "5", "6", "7", "8", "9">>

\* Entry k of a directory: the corpus entry under a name unique in the directory.
DirEntry(c, k) ==
    [name |-> Corpus[c].stem \o <<Digit[k]>>,
     isFile |-> Corpus[c].isFile,
     meta |-> Corpus[c].meta,
     content |-> Corpus[c].content]

Directories ==
    UNION {{[k \in 1..n |-> DirEntry(s[k], k)] : s \in Ascending(n)} : n \in 0..MaxEntries}

----------------------------------------------------------------------------
(* Output tree *)

NoFile == [kind |-> "nofile"]
NoDir == [exists |-> FALSE, files |-> {}]

\* build/ does not exist
AbsentTree ==
    [exists |-> FALSE, index |-> NoFile, postsDir |-> FALSE, pages |-> <<>>,
     static |-> NoDir, other |-> {}]

\* build/ holding only an empty posts/
ClearedTree ==
    [exists |-> TRUE, index |-> NoFile, postsDir |-> TRUE, pages |-> <<>>,
     static |-> NoDir, other |-> {}]

StalePage == [kind |-> "stale"]

\* build/ as left by an earlier build of other sources
StaleTree ==
    [exists |-> TRUE, index |-> StalePage, postsDir |-> TRUE,
     pages |-> (<<"a", "-", "b">> :> StalePage) @@ (<<"o", "l", "d">> :> StalePage),
     static |-> [exists |-> TRUE, files |-> {"old.css"}],
     other |-> {"CNAME"}]

StaticDirs == {NoDir, [exists |-> TRUE, files |-> {"favicon.ico", "logo.png"}]}

----------------------------------------------------------------------------
VARIABLES
    srcDir,     \* entries of posts/
    staticSrc,  \* the static/ directory beside the sources
    build,      \* the output tree build/
    pc,         \* the statement group the script is at
    todo,       \* indices of srcDir that scandir has not yet yielded
    posts,      \* the list `posts`
    idx,        \* position of the post page loop in `posts`
    err,        \* the exception that ended the run, "none" otherwise
    failedAt,   \* the value of pc when the exception was raised
    run,        \* "first" or "second" invocation of the script
    startTree,  \* build/ as it was when the current run started
    firstTree   \* build/ as the first run left it (set when a second run starts)

vars == <<srcDir, staticSrc, build, pc, todo, posts, idx, err, failedAt, run,
          startTree, firstTree>>

inputs == <<srcDir, staticSrc>>

\* Start of the script: `posts = []`, then the scandir loop, if it has entries.
FirstStep(dir) == IF dir = <<>> THEN "sort" ELSE "load"

Init ==
    /\ srcDir \in Directories
    /\ staticSrc \in StaticDirs
    /\ build \in {AbsentTree, StaleTree}
    /\ pc = FirstStep(srcDir)
    /\ todo = DOMAIN srcDir
    /\ posts = <<>>
    /\ idx = 1
    /\ err = "none"
    /\ failedAt = "none"
    /\ run = "first"
    /\ startTree = build
    /\ firstTree = NoFile

Raise(exc) ==
    /\ err' = exc
    /\ failedAt' = pc
    /\ pc' = "error"

NoError == UNCHANGED <<err, failedAt>>

----------------------------------------------------------------------------
(* Post loader *)

\* Variant of Skipped that lets hidden files through.
Skipped_DirsOnly(entry) == ~entry.isFile

\* `not post_file.is_file() or post_file.name.startswith(".")`
Skipped(entry) == ~entry.isFile \/ Head(entry.name) = "."

\* The exception parsing an entry raises, "none" if it yields a Post.
LoadError(entry) ==
    IF "date" \notin DOMAIN entry.meta THEN "KeyError"
    ELSE IF entry.meta.date.kind = "str" /\ ~IsIsoDate(entry.meta.date.text)
         THEN "ValueError"
    ELSE IF "title" \notin DOMAIN entry.meta THEN "KeyError"
    ELSE "none"

LoadPost(entry) ==
    MakePost(entry.meta.title,
             IF "description" \in DOMAIN entry.meta
             THEN Some(entry.meta.description) ELSE None,
             IF entry.meta.date.kind = "str"
             THEN FromIsoFormat(entry.meta.date.text) ELSE entry.meta.date,
             RestoreQuotes(Markdown(entry.content)))

\* One iteration of the scandir loop; scandir yields entries in any order.
ScanEntry ==
    /\ pc = "load"
    /\ \E k \in todo :
          /\ todo' = todo \ {k}
          /\ IF Skipped(srcDir[k])
             THEN /\ posts' = posts
                  /\ pc' = IF todo' = {} THEN "sort" ELSE "load"
                  /\ NoError
             ELSE IF LoadError(srcDir[k]) # "none"
             THEN /\ posts' = posts
                  /\ Raise(LoadError(srcDir[k]))
             ELSE /\ posts' = Append(posts, LoadPost(srcDir[k]))
                  /\ pc' = IF todo' = {} THEN "sort" ELSE "load"
                  /\ NoError
    /\ UNCHANGED <<inputs, build, idx, run, startTree, firstTree>>

----------------------------------------------------------------------------
(* Sort *)

\* Comparing a date with a datetime raises TypeError.
Comparable(ps) == \A a, b \in DOMAIN ps : ps[a].date.kind = ps[b].date.kind

\* Variant of KeepsBefore for reverse=False.
KeepsBefore_Ascending(a, p) == a.date.day <= p.date.day

\* Variant of KeepsBefore that leaves the list in scan order.
KeepsBefore_Unsorted(a, p) == TRUE

\* key=attrgetter("date"), reverse=True: a, met earlier, stays before p unless
\* p is newer; equal dates keep their order (sorted is stable).
KeepsBefore(a, p) == a.date.day >= p.date.day

RECURSIVE InsertByDate(_, _)
InsertByDate(sorted, p) ==
    IF sorted = <<>> THEN <<p>>
    ELSE IF KeepsBefore(Head(sorted), p)
         THEN <<Head(sorted)>> \o InsertByDate(Tail(sorted), p)
         ELSE <<p>> \o sorted

RECURSIVE SortedByDate(_)
\* list(sorted(posts, key=attrgetter("date"), reverse=True))
SortedByDate(ps) ==
    IF ps = <<>> THEN <<>>
    ELSE InsertByDate(SortedByDate(SubSeq(ps, 1, Len(ps) - 1)), ps[Len(ps)])

SortPosts ==
    /\ pc = "sort"
    /\ IF Comparable(posts)
       THEN /\ posts' = SortedByDate(posts)
            /\ pc' = "clear"
            /\ NoError
       ELSE /\ posts' = posts
            /\ Raise("TypeError")
    /\ UNCHANGED <<inputs, build, todo, idx, run, startTree, firstTree>>

----------------------------------------------------------------------------
(* Site builder *)

\* Variant of RmTree that removes nothing.
RmTree_Keep(tree) == tree

\* shutil.rmtree("build"): removes the tree; the directory has to exist
RmTree(tree) == AbsentTree

\* os.makedirs(os.path.join("build", "posts"), exist_ok=True)
MakePostsDir(tree) == [tree EXCEPT !.exists = TRUE, !.postsDir = TRUE]

ClearOutput ==
    /\ pc = "clear"
    /\ IF build.exists
       THEN /\ build' = MakePostsDir(RmTree(build))
            /\ pc' = "home"
            /\ NoError
       ELSE /\ build' = build
            /\ Raise("FileNotFoundError")
    /\ UNCHANGED <<inputs, todo, posts, idx, run, startTree, firstTree>>

\* Variant of AfterPost that leaves the post loop at once.
AfterPost_SkipLoop(k) == "copy"

\* The statement after the home page: the post loop, or past it when empty.
AfterPost(k) == IF k > Len(posts) THEN "copy" ELSE "posts"

WriteHome ==
    /\ pc = "home"
    /\ build' = [build EXCEPT !.index = home_page(posts)]
    /\ pc' = AfterPost(idx)
    /\ UNCHANGED <<inputs, todo, posts, idx, err, failedAt, run, startTree, firstTree>>

\* Variant of DirExists for exist_ok=True.
DirExists_ExistOk(tree, slug) == FALSE

\* os.makedirs(post_dir, exist_ok=False) finds the directory there already:
\* another page has the slug, or the slug is empty and post_dir is build/posts/
DirExists(tree, slug) == slug = <<>> \/ slug \in DOMAIN tree.pages

WritePost ==
    /\ pc = "posts"
    /\ idx <= Len(posts)
    /\ IF DirExists(build, Slug(posts[idx]))
       THEN /\ Raise("FileExistsError")
            /\ UNCHANGED <<build, idx>>
       ELSE /\ build' = [build EXCEPT
                           !.pages = (Slug(posts[idx]) :> post_page(posts[idx])) @@ @]
            /\ idx' = idx + 1
            /\ pc' = AfterPost(idx + 1)
            /\ NoError
    /\ UNCHANGED <<inputs, todo, posts, run, startTree, firstTree>>

\* if os.path.exists("static"): shutil.copytree("static", "build/static")
CopyStatic ==
    /\ pc = "copy"
    /\ build' = IF staticSrc.exists THEN [build EXCEPT !.static = staticSrc] ELSE build
    /\ pc' = "done"
    /\ UNCHANGED <<inputs, todo, posts, idx, err, failedAt, run, startTree, firstTree>>

\* The script is invoked again on the same sources.
Rerun ==
    /\ pc \in {"done", "error"}
    /\ run = "first"
    /\ run' = "second"
    /\ firstTree' = build
    /\ startTree' = build
    /\ pc' = FirstStep(srcDir)
    /\ todo' = DOMAIN srcDir
    /\ posts' = <<>>
    /\ idx' = 1
    /\ err' = "none"
    /\ failedAt' = "none"
    /\ UNCHANGED <<inputs, build>>

Next ==
    \/ ScanEntry
    \/ SortPosts
    \/ ClearOutput
    \/ WriteHome
    \/ WritePost
    \/ CopyStatic

Spec == Init /\ [][Next]_vars

NextTwice == Next \/ Rerun

SpecTwice == Init /\ [][NextTwice]_vars

----------------------------------------------------------------------------
(* Vocabulary of the properties, stated on the inputs and the output tree *)

\* The entries the loader has to turn into posts: regular files whose name
\* does not begin with "."
QualifyingFiles == {k \in DOMAIN srcDir : srcDir[k].isFile /\ srcDir[k].name[1] # "."}

ValidIsoText == {<<"2020", "-", "01", "-", Pad2[d]>> : d \in DOMAIN Pad2}

\* Title or date key missing, or a date string that is no ISO date.
Malformed(entry) ==
    \/ "title" \notin DOMAIN entry.meta
    \/ "date" \notin DOMAIN entry.meta
    \/ (entry.meta.date.kind = "str" /\ entry.meta.date.text \notin ValidIsoText)

\* The current run got as far as writing the home page.
HomeWritten == pc \in {"posts", "copy", "done"} \/ failedAt = "posts"

\* The current run got past the loader.
LoaderFinished ==
    pc \in {"sort", "clear", "home", "posts", "copy", "done"}
        \/ (pc = "error" /\ failedAt # "load")

HomeLinks == {build.index.articles[k].href.val : k \in DOMAIN build.index.articles}

PageUrls == {<<"/posts/">> \o s : s \in DOMAIN build.pages}

\* The first post of the list with slug s.
FirstWithSlug(s) ==
    CHOOSE k \in DOMAIN posts :
        Slug(posts[k]) = s /\ \A m \in 1..(k - 1) : Slug(posts[m]) # s

\* posts[idx] is the second (or later) post of its slug.
AtDuplicate ==
    /\ idx \in DOMAIN posts
    /\ \E m \in 1..(idx - 1) :
          Slugify(posts[m].title) = Slugify(posts[idx].title)

----------------------------------------------------------------------------
(* C1 *)

C1_NeverCompletes ==
    pc = "done" =>
        \A a, b \in DOMAIN posts :
            a # b => Slugify(posts[a].title) # Slugify(posts[b].title)

C1_FirstPageKept ==
    HomeWritten =>
        \A s \in DOMAIN build.pages : build.pages[s] = post_page(posts[FirstWithSlug(s)])

C1_AbortsAtSecond ==
    (pc = "posts" /\ AtDuplicate) =>
        /\ pc' = "error"
        /\ err' = "FileExistsError"
        /\ failedAt' = "posts"
        /\ build' = build

\* C1: a build whose posts hold two posts of one slug never completes; when the
\* post loop comes to create the output directory of the second post of a slug
\* the run ends with FileExistsError (the duplicate-slug error) and leaves the
\* tree as it is, and the page under build/posts/{slug}/ stays the page of the
\* first post of that slug.
C1_DuplicateSlugAborts ==
    /\ [](C1_NeverCompletes /\ C1_FirstPageKept)
    /\ [][C1_AbortsAtSecond]_vars

C1_Witness ==
    /\ pc = "error"
    /\ failedAt = "posts"
    /\ err = "FileExistsError"
    /\ AtDuplicate
    /\ Slug(posts[idx]) # <<>>
    /\ posts[idx] # posts[FirstWithSlug(Slug(posts[idx]))]
    /\ build.pages[Slug(posts[idx])] = post_page(posts[FirstWithSlug(Slug(posts[idx]))])

----------------------------------------------------------------------------
(* C2 *)

\* C2: the clear-output step succeeds from every initial output directory,
\* existing or absent, and leaves build/ holding only an empty posts/.
C2_ClearAlwaysSucceeds ==
    /\ failedAt # "clear"
    /\ pc = "home" => build = ClearedTree

----------------------------------------------------------------------------
(* C3 *)

\* C3: the home page on disk lists the posts newest first (each article's date
\* is not older than the next one's) and lists exactly the posts of the
\* qualifying source files, each as often as it was loaded.
C3_HomeSortedPermutation ==
    HomeWritten =>
        LET arts == build.index.articles
            want(k) == HomeArticle(LoadPost(srcDir[k]))
        IN  /\ build.index.kind = "home"
            /\ \A k \in 1..(Len(arts) - 1) :
                  IsoDay(arts[k].datetime.val) >= IsoDay(arts[k + 1].datetime.val)
            /\ Len(arts) = Cardinality(QualifyingFiles)
            /\ \A k \in DOMAIN arts :
                  Cardinality({m \in DOMAIN arts : arts[m] = arts[k]})
                      = Cardinality({q \in QualifyingFiles : want(q) = arts[k]})

C3_Witness ==
    /\ pc = "done"
    /\ Len(build.index.articles) = 3
    /\ \E k \in {1, 2} :
          IsoDay(build.index.articles[k].datetime.val)
              > IsoDay(build.index.articles[k + 1].datetime.val)
    /\ \E a, b \in DOMAIN srcDir :
          /\ a < b
          /\ {a, b} \subseteq QualifyingFiles
          /\ LoadPost(srcDir[a]).date.day < LoadPost(srcDir[b]).date.day

----------------------------------------------------------------------------
(* C4 *)

\* C4: with a qualifying source file that misses title or date or carries an
\* unparsable date string, the run never gets past the loader, ends only with
\* the loader's KeyError or ValueError, and build/ stays as the run found it.
C4_LoaderErrorLeavesOutput ==
    (\E k \in QualifyingFiles : Malformed(srcDir[k])) =>
        /\ pc \in {"load", "error"}
        /\ pc = "error" => failedAt = "load" /\ err \in {"KeyError", "ValueError"}
        /\ build = startTree

C4_Witness ==
    /\ pc = "error"
    /\ failedAt = "load"
    /\ posts # <<>>
    /\ build = StaleTree
    /\ \E k \in QualifyingFiles : Malformed(srcDir[k])

----------------------------------------------------------------------------
(* C5 *)

\* The entry carries a date: a date value, or a string that is an ISO date.
HasDate(entry) ==
    /\ "date" \in DOMAIN entry.meta
    /\ entry.meta.date.kind = "str" => entry.meta.date.text \in ValidIsoText

DateOf(entry) ==
    IF entry.meta.date.kind = "str"
    THEN Date(IsoDay(entry.meta.date.text))
    ELSE entry.meta.date

\* No two qualifying source files carry the same date.
DistinctDates ==
    \A a, b \in QualifyingFiles :
        (a # b /\ HasDate(srcDir[a]) /\ HasDate(srcDir[b]))
            => DateOf(srcDir[a]) # DateOf(srcDir[b])

SecondRunEnded == run = "second" /\ pc \in {"done", "error"}

\* C5 as stated: a second run on unchanged input leaves the tree the first
\* run left, also when posts share a date.
C5_Idempotent == SecondRunEnded => build = firstTree

\* C5 amended: a second run on unchanged input leaves the tree the first run
\* left, provided no two posts carry the same date.
C5_IdempotentDistinctDates == (SecondRunEnded /\ DistinctDates) => build = firstTree

C5_Witness ==
    /\ SecondRunEnded
    /\ DistinctDates
    /\ pc = "done"
    /\ Len(posts) >= 2
    /\ build = firstTree
    /\ startTree # StaleTree

----------------------------------------------------------------------------
(* C6 *)

\* The qualifying file whose title has slug s.
FileWithSlug(s) == CHOOSE q \in QualifyingFiles : Slugify(srcDir[q].meta.title) = s

\* C6: after a successful build the tree is exactly index.html, one page per
\* loaded post under its slug, and static/ a copy of the source static
\* directory if there is one; nothing of an earlier tree is left.
C6_ExactOutputTree ==
    pc = "done" =>
        /\ build.exists /\ build.postsDir
        /\ build.index.kind = "home"
        /\ Len(build.index.articles) = Cardinality(QualifyingFiles)
        /\ DOMAIN build.pages = {Slugify(srcDir[q].meta.title) : q \in QualifyingFiles}
        /\ Cardinality(DOMAIN build.pages) = Cardinality(QualifyingFiles)
        /\ \A s \in DOMAIN build.pages :
              build.pages[s] = post_page(LoadPost(srcDir[FileWithSlug(s)]))
        /\ build.static = staticSrc
        /\ build.other = {}

C6_Witness ==
    /\ pc = "done"
    /\ startTree = StaleTree
    /\ staticSrc.exists
    /\ Cardinality(DOMAIN build.pages) >= 2

----------------------------------------------------------------------------
(* C7 *)

\* C7: on the pages written, title, description and formatted date of a post
\* are inserted in the escaped-text mode; only the post body is inserted raw.
C7_PostTextEscaped ==
    /\ (HomeWritten /\ build.index.kind = "home") =>
          \A k \in DOMAIN build.index.articles :
              LET a == build.index.articles[k]
              IN  /\ a.title.mode = "text"
                  /\ a.time.mode = "text"
                  /\ ~a.description.isNone => a.description.val.mode = "text"
    /\ HomeWritten =>
          \A s \in DOMAIN build.pages :
              /\ build.pages[s].heading.mode = "text"
              /\ build.pages[s].time.mode = "text"
              /\ build.pages[s].body.mode = "asis"

----------------------------------------------------------------------------
(* C8 *)

Rank(p) ==
    CASE p = "load" -> 1
      [] p = "sort" -> 2
      [] p = "clear" -> 3
      [] p = "home" -> 4
      [] p = "posts" -> 5
      [] p = "copy" -> 6
      [] p = "done" -> 7
      [] p = "error" -> 8

NewestFirst(ps) == \A k \in 1..(Len(ps) - 1) : ps[k].date.day >= ps[k + 1].date.day

C8_Step ==
    /\ \/ Rank(pc) < Rank(pc')
       \/ pc = "load" /\ pc' = "load" /\ todo' # todo /\ todo' \subseteq todo
       \/ pc = "posts" /\ pc' = "posts" /\ idx' = idx + 1
    /\ posts' # posts => pc \in {"load", "sort"}
    /\ build' # build =>
          /\ pc \in {"clear", "home", "posts", "copy"}
          /\ todo = {}
          /\ Len(posts) = Cardinality(QualifyingFiles)
          /\ NewestFirst(posts)
    /\ (pc # "clear" /\ build'.index # build.index) =>
          pc = "home" /\ build = ClearedTree
    /\ (pc # "clear" /\ build'.pages # build.pages) =>
          /\ pc = "posts"
          /\ build.index = home_page(posts)
          /\ Cardinality(DOMAIN build'.pages) = idx
    /\ (pc # "clear" /\ build'.static # build.static) =>
          /\ pc = "copy"
          /\ Cardinality(DOMAIN build.pages) = Len(posts)

\* C8: the steps of a run come in the order load, sort, clear, home, posts,
\* copy, none repeated (the post step once per post); the tree changes only
\* after every source file is loaded and the list sorted, the home page is
\* written before any post page, and assets are copied after all post pages.
C8_StepOrder == [][C8_Step]_vars

C8_Witness ==
    /\ pc = "done"
    /\ Len(posts) >= 2
    /\ build.static.exists
    /\ startTree = StaleTree

----------------------------------------------------------------------------
(* C9 *)

\* C9: entries that are no regular file or whose name begins with "." yield
\* no post, every other entry yields exactly one: while loading, the posts
\* are those of the qualifying entries scanned so far, and after loading
\* there are as many posts as qualifying files, one per file.
C9_OnePostPerQualifyingFile ==
    /\ pc = "load" => Len(posts) = Cardinality(QualifyingFiles \ todo)
    /\ LoaderFinished =>
          /\ Len(posts) = Cardinality(QualifyingFiles)
          /\ \A k \in DOMAIN posts :
                Cardinality({m \in DOMAIN posts : posts[m] = posts[k]})
                    = Cardinality({q \in QualifyingFiles : LoadPost(srcDir[q]) = posts[k]})

C9_Witness ==
    /\ pc = "sort"
    /\ Len(posts) = 1
    /\ \E a, b \in DOMAIN srcDir :
          /\ ~srcDir[a].isFile
          /\ srcDir[b].isFile /\ srcDir[b].name[1] = "."

----------------------------------------------------------------------------
(* C10 *)

\* C10: after a successful build the links of the home page are exactly the
\* URLs of the post pages written; in a run that failed while writing post
\* pages the home page on disk lists every post while fewer pages than
\* posts were written.
C10_LinkIntegrity ==
    /\ pc = "done" =>
          /\ build.index.kind = "home"
          /\ HomeLinks = PageUrls
    /\ failedAt = "posts" =>
          /\ build.index = home_page(posts)
          /\ Cardinality(DOMAIN build.pages) < Len(build.index.articles)

\* A failed run whose home page links to a post page that was not written.
C10_Witness ==
    /\ pc = "error"
    /\ failedAt = "posts"
    /\ build.pages # <<>>
    /\ \E link \in HomeLinks : link \notin PageUrls /\ link # <<"/posts/">>

====
